---- MODULE Spec2Model ----
(***************************************************************************)
(* The rezervo-web chat widget: the session controller (App component) in  *)
(* its two versions and the transport adapter (api.js).                    *)
(*                                                                         *)
(*   variant "landing"  : src/src/App.jsx      (landing page, duplicate    *)
(*                        window of 1.2 s, echo de-duplication)            *)
(*   variant "greeting" : src/unnamed/part_000 (auto-greeting on mount and *)
(*                        on reset, starter chips)                         *)
(*                                                                         *)
(* React state is the committed state; one action is one event handler (or *)
(* one promise continuation) run to its next await.  A handler reads the   *)
(* state variables through the closure of the render it was created in,    *)
(* that is the values before the action; state setters called with a       *)
(* function are applied in the order they were queued.  A text is a        *)
(* sequence of string tokens, the empty sequence being the empty string.   *)
(***************************************************************************)
EXTENDS Integers, Sequences, FiniteSets, TLC

\* ------------------------------------------------------------------ bounds
MaxRequests == 2      \* handleSend invocations accepted in one behaviour
MaxRefused  == 1      \* handleSend invocations dropped or rejected in one behaviour
TickMs      == 600    \* milliseconds per clock tick

\* ------------------------------------------------------- program constants
DupWindowMs == 1200

NoCid == ""           \* null / undefined / "" : all falsy in the code
Cids  == {"c1", "c2"}
NoText == <<>>

Variants == {"landing", "greeting"}

\* ------------------------------------------------------------ text helpers
RECURSIVE Join(_, _)
Join(list, sep) ==
  IF Len(list) = 0 THEN <<>>
  ELSE IF Len(list) = 1 THEN <<list[1]>>
  ELSE <<list[1], sep>> \o Join(Tail(list), sep)

RECURSIVE TrimStart(_)
TrimStart(s) == IF s # <<>> /\ Head(s) = " " THEN TrimStart(Tail(s)) ELSE s

RECURSIVE Reverse(_)
Reverse(s) == IF s = <<>> THEN <<>> ELSE Append(Reverse(Tail(s)), Head(s))

Trim(s) == Reverse(TrimStart(Reverse(TrimStart(s))))

\* an object field that may be absent (undefined is falsy)
GetBool(a, f) == IF f \in DOMAIN a THEN a[f] ELSE FALSE
GetStr(a, f)  == IF f \in DOMAIN a THEN a[f] ELSE ""

\* ------------------------------------------------------------------ inputs
TypedTexts == { <<"h", " ">> }

ChipItalian  == [title |-> "Italian",
                 action |-> [clientOnly |-> TRUE, type |-> "toggle", group |-> "cuisine", value |-> "Italian"]]
ChipJapanese == [title |-> "Japanese",
                 action |-> [clientOnly |-> TRUE, type |-> "toggle", group |-> "cuisine", value |-> "Japanese"]]
ChipArea     == [title |-> "Salamanca",
                 action |-> [clientOnly |-> TRUE, type |-> "toggle", group |-> "area", value |-> "Salamanca"]]
ChipNoValue  == [title |-> "Any",
                 action |-> [clientOnly |-> TRUE, type |-> "toggle", group |-> "cuisine", value |-> ""]]
ChipSubmitCuisines == [title |-> "Done", action |-> [type |-> "submit_refine_cuisines"]]
ChipSubmitAreas    == [title |-> "Done areas", action |-> [type |-> "submit_refine_areas"]]
ChipBook     == [title |-> "Book it", action |-> [type |-> "book"]]

AllChips == <<ChipItalian, ChipJapanese, ChipArea, ChipNoValue,
              ChipSubmitCuisines, ChipSubmitAreas, ChipBook>>

FewChips == <<ChipNoValue, ChipSubmitCuisines, ChipBook>>

Groups == {"cuisine", "area"}

BotInfo == [role |-> "assistant", text |-> <<"Table for 2">>, suggestions |-> <<>>]
BotChips(chips) ==
  [role |-> "assistant", text |-> <<"Booking confirmed", ". What next?">>,
   suggestions |-> <<chips>>]

\* the messages field of a response body: <<>> when missing or not an array
MessageLists(chips) == { <<>>, << <<BotInfo, BotChips(chips)>> >> }

\* how a fetch can settle
OutcomesWith(chips) ==
  [kind : {"ok"}, conversationId : {NoCid} \cup Cids, messages : MessageLists(chips)]
  \cup { [kind |-> "http", status |-> "500", body |-> "boom"],
         [kind |-> "network", message |-> "Failed to fetch"] }

\* ------------------------------------------------------------------- state
VARIABLES
  variant,            \* which version of the App component runs
  apiUrl, anonKey,    \* api.js: API_URL, ANON_KEY ("" when not configured)
  chips,              \* the suggestions the backend attaches to its question
  persistedAtLoad,    \* localStorage rezervo_conversation_id when the page loaded
  mounted,            \* the mount effects have run
  greetedWith,        \* greeting variant: <<startupError>> of the render whose
                      \* greeting effect ran last, <<>> before the first run
  started,            \* landing variant: useState started
  storedStarted,      \* localStorage rezervo_started
  conversationId,     \* useState conversationId
  storedCid,          \* localStorage rezervo_conversation_id
  messages,           \* useState messages (the transcript)
  text,               \* useState text (composer input)
  heroText,           \* landing variant: useState heroText
  sending,            \* useState sending
  startupError,       \* useState startupError
  toast,              \* useState toast: "" or its type
  pendingSelections,  \* useState pendingSelections: group -> ordered set
  lastRequestRef,     \* landing variant: useRef {key, ts}; age is Date.now() - ts,
                      \* kept up to DupWindowMs (the code compares it with nothing else)
  pending,            \* handleSend invocations suspended at await sendChat
  lastRequest,        \* the fetch issued last: <<>> before the first one
  accepted,           \* handleSend invocations that passed the guards
  refused,            \* handleSend invocations that returned at a guard
  bootstraps,         \* sends the greeting effect has made
  lastEvent,          \* the event handled by the last step
  run                 \* consecutive clicks on one toggle chip

config == <<variant, apiUrl, anonKey, chips, persistedAtLoad>>

\* what handleSend writes before it suspends
sendState == <<messages, lastRequestRef, sending, pending, lastRequest, accepted, refused>>

vars == <<config, mounted, greetedWith, started, storedStarted, conversationId, storedCid,
          text, heroText, startupError, toast, pendingSelections, sendState,
          bootstraps, lastEvent, run>>

\* ------------------------------------------------- transport adapter (api.js)
getConfigStatus ==
  [missing |-> (IF apiUrl = "" THEN <<"VITE_CHAT_URL">> ELSE <<>>)
               \o (IF anonKey = "" THEN <<"VITE_SUPABASE_ANON_KEY">> ELSE <<>>)]

\* the synchronous part of sendChat: either it throws before the fetch, or it
\* issues one fetch and suspends on it
\* sendChat without the configuration check
sendChat_Unchecked(body) ==
  [threw |-> FALSE,
   message |-> NoText,
   fetch |-> << [url |-> apiUrl, method |-> "POST",
                 authorization |-> <<"Bearer ", anonKey>>,
                 body |-> body] >>]

sendChat(body) ==
  LET missing == getConfigStatus.missing IN
  IF Len(missing) # 0
    THEN [threw |-> TRUE,
          message |-> <<"Missing config: ">> \o Join(missing, ", "),
          fetch |-> <<>>]
    ELSE [threw |-> FALSE,
          message |-> NoText,
          fetch |-> << [url |-> apiUrl, method |-> "POST",
                        authorization |-> <<"Bearer ", anonKey>>,
                        body |-> body] >>]

\* a failure message that ignores what went wrong
FailureMessage_Generic(outcome) == <<"Something went wrong">>

\* the message of the Error a settled fetch makes sendChat throw
FailureMessage(outcome) ==
  IF outcome.kind = "http"
    THEN <<"chat failed: ", outcome.status, " ", outcome.body>>
    ELSE <<outcome.message>>

\* --------------------------------------------------- session controller helpers
StartupErrorText(missing) ==
  <<"Missing environment variable(s): ">> \o Join(missing, ", ")
  \o <<". Set them in Vercel -> Project -> Settings -> Environment Variables and redeploy.">>

\* toggleSelection that adds and never removes
toggleSelection_AddOnly(prev, group, value) ==
  LET cur == prev[group]
      has == \E i \in 1..Len(cur) : cur[i] = value
  IN [prev EXCEPT ![group] = IF has THEN cur ELSE Append(cur, value)]

toggleSelection(prev, group, value) ==
  LET cur  == prev[group]
      has  == \E i \in 1..Len(cur) : cur[i] = value
      next == IF has THEN SelectSeq(cur, LAMBDA v : v # value) ELSE Append(cur, value)
  IN [prev EXCEPT ![group] = next]

clearSelections(prev, group) == [prev EXCEPT ![group] = <<>>]

NoSelections == [g \in Groups |-> <<>>]

\* a user bubble put in front of the transcript
addUserBubble_Prepend(prev, title) ==
  <<[role |-> "user", text |-> title, suggestions |-> <<>>]>> \o prev

addUserBubble(prev, title) ==
  Append(prev, [role |-> "user", text |-> title, suggestions |-> <<>>])

clearChipsOnLastAssistant(prev) ==
  IF Len(prev) = 0 THEN prev
  ELSE LET last == prev[Len(prev)] IN
       IF last.role # "assistant" \/ last.suggestions = <<>> THEN prev
       ELSE [prev EXCEPT ![Len(prev)].suggestions = <<>>]

\* landing variant, handleSend: echo the text unless the last entry is that echo
EchoOnce(m, payloadText) ==
  IF Len(m) > 0 /\ m[Len(m)].role = "user" /\ m[Len(m)].text = payloadText
    THEN m
    ELSE Append(m, [role |-> "user", text |-> payloadText, suggestions |-> <<>>])

\* greeting variant, handleSend: echo bubble for typed text
EchoAlways(m, payloadText) == clearChipsOnLastAssistant(addUserBubble(m, payloadText))

\* JSON.stringify({t: payloadText || null, a: action || null})
RequestKey(payloadText, action) == [t |-> payloadText, a |-> action]

IsDuplicate(ref, key) == ref.key = <<key>> /\ ref.age < DupWindowMs

\* a request body that sends an empty text next to every action
BuildBody_TextAlways(cid, payloadText, action) ==
  [conversationId |-> cid, channel |-> "web", locale |-> "en-GB",
   text |-> IF payloadText = NoText THEN <<"">> ELSE payloadText, action |-> action]

\* a request body that leaves the conversation id out
BuildBody_NoId(cid, payloadText, action) ==
  [conversationId |-> NoCid, channel |-> "web", locale |-> "en-GB",
   text |-> payloadText, action |-> action]

\* the request body; text = NoText and action = <<>> stand for an absent field
BuildBody(cid, payloadText, action) ==
  [conversationId |-> cid, channel |-> "web", locale |-> "en-GB",
   text |-> payloadText, action |-> action]

BookingConfirmed(t) ==
  \E i \in 1..Len(t) : t[i] \in {"Booking confirmed", "booking confirmed"}

\* what a handler reads through its closure
Closure == [sending |-> sending, startupError |-> startupError,
            conversationId |-> conversationId]

\* what a handler's queued updates and ref writes have produced so far
Queue == [messages |-> messages, lastRequestRef |-> lastRequestRef,
          sending |-> sending, pending |-> pending, lastRequest |-> lastRequest,
          accepted |-> accepted, result |-> "none"]

\* handleSend from setSending(true) to the await of sendChat
EnterSending(cl, q, payloadText, action, trigger, after) ==
  LET body == BuildBody(cl.conversationId, payloadText, action)
      call == sendChat(body)
      inv  == [id |-> q.accepted + 1, trigger |-> trigger, cid |-> cl.conversationId,
               threw |-> call.threw, message |-> call.message, after |-> after]
  IN [q EXCEPT !.sending = TRUE,
               !.pending = Append(@, inv),
               !.lastRequest = IF call.threw THEN @
                               ELSE << [id |-> q.accepted + 1, trigger |-> trigger,
                                        fetch |-> call.fetch[1]] >>,
               !.accepted = @ + 1,
               !.result = "accepted"]

\* handleSend of the landing variant without the sending guard
handleSendLanding_Unguarded(cl, q, payloadText, action, trigger, after) ==
  LET key == RequestKey(payloadText, action) IN
  IF IsDuplicate(q.lastRequestRef, key)
    THEN [q EXCEPT !.result = "dropped"]
    ELSE LET q1 == [q EXCEPT !.lastRequestRef = [key |-> <<key>>, age |-> 0]] IN
         IF cl.startupError # NoText
           THEN [q1 EXCEPT !.result = "rejected"]
           ELSE EnterSending(cl,
                  [q1 EXCEPT !.messages = IF payloadText # NoText
                                            THEN EchoOnce(@, payloadText) ELSE @],
                  payloadText, action, trigger, after)

handleSendLanding(cl, q, payloadText, action, trigger, after) ==
  LET key == RequestKey(payloadText, action) IN
  IF IsDuplicate(q.lastRequestRef, key)
    THEN [q EXCEPT !.result = "dropped"]
    ELSE LET q1 == [q EXCEPT !.lastRequestRef = [key |-> <<key>>, age |-> 0]] IN
         IF cl.sending \/ cl.startupError # NoText
           THEN [q1 EXCEPT !.result = "rejected"]
           ELSE EnterSending(cl,
                  [q1 EXCEPT !.messages = IF payloadText # NoText
                                            THEN EchoOnce(@, payloadText) ELSE @],
                  payloadText, action, trigger, after)

handleSendGreeting(cl, q, payloadText, action, trigger, after) ==
  IF cl.sending \/ cl.startupError # NoText
    THEN [q EXCEPT !.result = "rejected"]
    ELSE EnterSending(cl,
           [q EXCEPT !.messages = IF payloadText # NoText
                                    THEN EchoAlways(@, payloadText) ELSE @],
           payloadText, action, trigger, after)

handleSend(cl, q, payloadText, action, trigger, after) ==
  IF variant = "landing"
    THEN handleSendLanding(cl, q, payloadText, action, trigger, after)
    ELSE handleSendGreeting(cl, q, payloadText, action, trigger, after)

\* handleSend returned at the duplicate window or at the sending guard
Refused(q) == q.result \in {"dropped", "rejected"}

\* a commit in which a refused handleSend clears the sending flag
Commit_RefusalClearsSending(q) ==
  /\ messages' = q.messages
  /\ lastRequestRef' = q.lastRequestRef
  /\ sending' = IF Refused(q) THEN FALSE ELSE q.sending
  /\ pending' = q.pending
  /\ lastRequest' = q.lastRequest
  /\ accepted' = q.accepted
  /\ refused' = IF Refused(q) THEN refused + 1 ELSE refused

\* commit what handleSend produced
Commit(q) ==
  /\ messages' = q.messages
  /\ lastRequestRef' = q.lastRequestRef
  /\ sending' = q.sending
  /\ pending' = q.pending
  /\ lastRequest' = q.lastRequest
  /\ accepted' = q.accepted
  /\ refused' = IF Refused(q) THEN refused + 1 ELSE refused

\* useEffect on [started]: persist the flag when it changed
PersistStarted(old, new, stored) ==
  IF new # old THEN (IF new THEN "1" ELSE "0") ELSE stored

\* the event of a step: its handler, the chip clicked (<<>> when none) and
\* what handleSend did with the event ("none" when it was not called)
Event(kind, chip, result) == [kind |-> kind, chip |-> chip, result |-> result]

NoRun == [n |-> 0, chip |-> <<>>, member |-> FALSE]

\* ----------------------------------------------------------- what is rendered
ConfigPanel == startupError # NoText

ChatVisible == ~ConfigPanel /\ (variant = "landing" => started)

HeroVisible == variant = "landing" /\ ~ConfigPanel /\ ~started

StarterVisible == variant = "greeting" /\ ~ConfigPanel /\ Len(messages) = 0 /\ ~sending

\* Message renders the chips of every transcript entry that has a non-empty
\* suggestion array; the buttons are disabled while sending
HasChips(m) == m.suggestions # <<>> /\ Len(m.suggestions[1]) > 0

VisibleChips ==
  UNION { { messages[i].suggestions[1][j] : j \in 1..Len(messages[i].suggestions[1]) } :
          i \in { k \in 1..Len(messages) : HasChips(messages[k]) } }

StarterExamples == { <<"2025-09-05 dinner 2 Salamanca Italian">> }

Outcomes == OutcomesWith(chips)

\* a promise that is already rejected is handled before any other event
MicrotaskPending == \E i \in 1..Len(pending) : pending[i].threw

\* an effect whose dependency changed runs before any other event
EffectPending == variant = "greeting" /\ greetedWith # <<startupError>>

Interactive == mounted /\ ~MicrotaskPending /\ ~EffectPending

\* a trigger is taken while the behaviour stays within its bounds
Within(q) ==
  /\ q.accepted <= MaxRequests
  /\ Refused(q) => refused < MaxRefused

\* ------------------------------------------------------------------ Init
\* the state of the first render, before its effects
InitWith(c) ==
  /\ variant \in Variants
  /\ apiUrl \in {"", "https://chat"}
  /\ anonKey \in {"", "anon"}
  /\ chips = c
  /\ mounted = FALSE
  /\ greetedWith = <<>>
  /\ storedCid \in {NoCid, "c1"}
  /\ persistedAtLoad = storedCid
  /\ conversationId = storedCid
  /\ storedStarted \in (IF variant = "landing" THEN {"", "1"} ELSE {""})
  /\ started = (storedStarted = "1")
  /\ messages = <<>>
  /\ text = NoText
  /\ heroText = NoText
  /\ sending = FALSE
  /\ startupError = NoText
  /\ toast = ""
  /\ pendingSelections = NoSelections
  /\ lastRequestRef = [key |-> <<>>, age |-> DupWindowMs]
  /\ pending = <<>>
  /\ lastRequest = <<>>
  /\ accepted = 0
  /\ refused = 0
  /\ bootstraps = 0
  /\ lastEvent = Event("init", <<>>, "none")
  /\ run = NoRun

Init == InitWith(FewChips)

\* ------------------------------------------------------------- mount effects
\* a greeting effect that does not look at the stored conversation id
GreetingWanted_IgnoresId(cl) == cl.startupError = NoText

\* greeting variant, the condition of the greeting effect
GreetingWanted(cl) == cl.startupError = NoText /\ cl.conversationId = NoCid

\* greeting variant, the body of the greeting effect
GreetingEffectBody(cl, q) ==
  IF GreetingWanted(cl)
    THEN handleSend(cl, q, NoText, <<>>, "bootstrap", "none")
    ELSE q

\* The effects of the first commit, all run with the closure of the first
\* render (startupError = "", sending = false): persist started, report the
\* missing configuration, and in the greeting variant ask for the greeting.
Mount ==
  /\ ~mounted
  /\ mounted' = TRUE
  /\ LET missing == getConfigStatus.missing
         q == IF variant = "greeting" THEN GreetingEffectBody(Closure, Queue) ELSE Queue
     IN /\ startupError' = IF Len(missing) # 0 THEN StartupErrorText(missing)
                                               ELSE startupError
        /\ Commit(q)
        /\ bootstraps' = IF q.result = "accepted" THEN bootstraps + 1 ELSE bootstraps
        /\ lastEvent' = Event("mount", <<>>, q.result)
  /\ greetedWith' = IF variant = "greeting" THEN <<startupError>> ELSE greetedWith
  /\ storedStarted' = IF variant = "landing"
                        THEN (IF started THEN "1" ELSE "0") ELSE storedStarted
  /\ run' = NoRun
  /\ UNCHANGED <<config, started, conversationId, storedCid, text, heroText, toast,
                 pendingSelections>>

\* greeting variant: the greeting effect depends on [startupError] and runs
\* again after a commit that changed it
GreetingEffect ==
  /\ mounted
  /\ EffectPending
  /\ LET q == GreetingEffectBody(Closure, Queue)
     IN /\ Commit(q)
        /\ bootstraps' = IF q.result = "accepted" THEN bootstraps + 1 ELSE bootstraps
        /\ lastEvent' = Event("effect", <<>>, q.result)
  /\ greetedWith' = <<startupError>>
  /\ run' = NoRun
  /\ UNCHANGED <<config, mounted, started, storedStarted, conversationId, storedCid,
                 text, heroText, startupError, toast, pendingSelections>>

\* ------------------------------------------------------------------- clock
\* time passes; only the landing variant reads the clock
Min(a, b) == IF a < b THEN a ELSE b

Tick ==
  /\ variant = "landing"
  /\ lastRequestRef.age < DupWindowMs
  /\ lastRequestRef' = [lastRequestRef EXCEPT !.age = Min(@ + TickMs, DupWindowMs)]
  /\ UNCHANGED <<config, mounted, greetedWith, started, storedStarted, conversationId,
                 storedCid, text, heroText, startupError, toast, pendingSelections,
                 messages, sending, pending, lastRequest, accepted, refused,
                 bootstraps, lastEvent, run>>

\* setTimeout(() => setToast(null), 3500): every toast shown has such a timer
\* pending, and a timer that finds no toast changes nothing
ToastTimeout ==
  /\ toast # ""
  /\ toast' = ""
  /\ UNCHANGED <<config, mounted, greetedWith, started, storedStarted, conversationId,
                 storedCid, text, heroText, startupError, pendingSelections, sendState,
                 bootstraps, lastEvent, run>>

\* ------------------------------------------- handleSend after await sendChat
RemoveAt(seq, i) == SubSeq(seq, 1, i - 1) \o SubSeq(seq, i + 1, Len(seq))

\* adoption of whatever the response carries
AdoptsId_Any(inv, data) == data.conversationId # inv.cid

\* handleSend, try block after the await: adopt the conversation id
AdoptsId(inv, data) ==
  data.conversationId # NoCid /\ data.conversationId # inv.cid

\* Array.isArray(data?.messages) ? data.messages : []
ResponseMessages(data) == IF data.messages = <<>> THEN <<>> ELSE data.messages[1]

\* a continuation that adopts the conversation id without persisting it
Continue_NoPersist(i, failed, errText, data) ==
  LET inv   == pending[i]
      adopt == ~failed /\ AdoptsId(inv, data)
      msgs  == IF failed THEN <<>> ELSE ResponseMessages(data)
      confirmed == Len(msgs) > 0 /\ BookingConfirmed(msgs[Len(msgs)].text)
  IN
  /\ conversationId' = IF adopt THEN data.conversationId ELSE conversationId
  /\ storedCid' = storedCid
  /\ messages' = IF failed
                   THEN Append(messages, [role |-> "assistant", text |-> errText,
                                          suggestions |-> <<>>])
                   ELSE messages \o msgs
  /\ toast' = IF failed THEN "error" ELSE IF confirmed THEN "success" ELSE toast
  /\ sending' = FALSE
  /\ text' = NoText
  /\ pending' = RemoveAt(pending, i)
  /\ pendingSelections' = IF inv.after \in Groups
                            THEN clearSelections(pendingSelections, inv.after)
                            ELSE pendingSelections
  /\ started' = IF variant = "landing" /\ inv.after \in Groups THEN TRUE ELSE started
  /\ storedStarted' = PersistStarted(started, started', storedStarted)
  /\ heroText' = IF inv.after = "hero" THEN NoText ELSE heroText
  /\ run' = NoRun
  /\ UNCHANGED <<config, mounted, greetedWith, startupError, lastRequestRef, lastRequest,
                 accepted, refused, bootstraps>>

\* a continuation whose finally block does not run
Continue_NoFinally(i, failed, errText, data) ==
  LET inv   == pending[i]
      adopt == ~failed /\ AdoptsId(inv, data)
      msgs  == IF failed THEN <<>> ELSE ResponseMessages(data)
      confirmed == Len(msgs) > 0 /\ BookingConfirmed(msgs[Len(msgs)].text)
  IN
  /\ conversationId' = IF adopt THEN data.conversationId ELSE conversationId
  /\ storedCid' = IF adopt THEN data.conversationId ELSE storedCid
  /\ messages' = IF failed
                   THEN Append(messages, [role |-> "assistant", text |-> errText,
                                          suggestions |-> <<>>])
                   ELSE messages \o msgs
  /\ toast' = IF failed THEN "error" ELSE IF confirmed THEN "success" ELSE toast
  /\ sending' = IF failed THEN sending ELSE FALSE
  /\ text' = IF failed THEN text ELSE NoText
  /\ pending' = RemoveAt(pending, i)
  /\ pendingSelections' = IF inv.after \in Groups
                            THEN clearSelections(pendingSelections, inv.after)
                            ELSE pendingSelections
  /\ started' = IF variant = "landing" /\ inv.after \in Groups THEN TRUE ELSE started
  /\ storedStarted' = PersistStarted(started, started', storedStarted)
  /\ heroText' = IF inv.after = "hero" THEN NoText ELSE heroText
  /\ run' = NoRun
  /\ UNCHANGED <<config, mounted, greetedWith, startupError, lastRequestRef, lastRequest,
                 accepted, refused, bootstraps>>

\* the rest of handleSend, and then of the handler that awaited it
Continue(i, failed, errText, data) ==
  LET inv   == pending[i]
      adopt == ~failed /\ AdoptsId(inv, data)
      msgs  == IF failed THEN <<>> ELSE ResponseMessages(data)
      confirmed == Len(msgs) > 0 /\ BookingConfirmed(msgs[Len(msgs)].text)
  IN
  /\ conversationId' = IF adopt THEN data.conversationId ELSE conversationId
  /\ storedCid' = IF adopt THEN data.conversationId ELSE storedCid
  /\ messages' = IF failed
                   THEN Append(messages, [role |-> "assistant", text |-> errText,
                                          suggestions |-> <<>>])
                   ELSE messages \o msgs
  /\ toast' = IF failed THEN "error" ELSE IF confirmed THEN "success" ELSE toast
  /\ sending' = FALSE
  /\ text' = NoText
  /\ pending' = RemoveAt(pending, i)
  /\ pendingSelections' = IF inv.after \in Groups
                            THEN clearSelections(pendingSelections, inv.after)
                            ELSE pendingSelections
  /\ started' = IF variant = "landing" /\ inv.after \in Groups THEN TRUE ELSE started
  /\ storedStarted' = PersistStarted(started, started', storedStarted)
  /\ heroText' = IF inv.after = "hero" THEN NoText ELSE heroText
  /\ run' = NoRun
  /\ UNCHANGED <<config, mounted, greetedWith, startupError, lastRequestRef, lastRequest,
                 accepted, refused, bootstraps>>

NoData == [conversationId |-> NoCid, messages |-> <<>>]

\* sendChat threw before the fetch
Reject(i) ==
  /\ i \in 1..Len(pending)
  /\ pending[i].threw
  /\ Continue(i, TRUE, pending[i].message, NoData)
  /\ lastEvent' = Event("reject", <<>>, "none")

\* the fetch settled
Settle(i, outcome) ==
  /\ i \in 1..Len(pending)
  /\ ~pending[i].threw
  /\ IF outcome.kind = "ok"
       THEN Continue(i, FALSE, NoText, outcome)
       ELSE Continue(i, TRUE, FailureMessage(outcome), NoData)
  /\ lastEvent' = Event("settle", <<>>, "none")

\* ------------------------------------------------------------- user events
\* onChange of the composer input (disabled while sending)
TypeText(t) ==
  /\ Interactive /\ ChatVisible /\ ~sending
  /\ text # t
  /\ text' = t
  /\ lastEvent' = Event("type", <<>>, "none")
  /\ run' = NoRun
  /\ UNCHANGED <<config, mounted, greetedWith, started, storedStarted, conversationId,
                 storedCid, heroText, startupError, toast, pendingSelections, sendState,
                 bootstraps>>

\* onChange of the landing input
TypeHero(t) ==
  /\ Interactive /\ HeroVisible
  /\ heroText # t
  /\ heroText' = t
  /\ lastEvent' = Event("typeHero", <<>>, "none")
  /\ run' = NoRun
  /\ UNCHANGED <<config, mounted, greetedWith, started, storedStarted, conversationId,
                 storedCid, text, startupError, toast, pendingSelections, sendState,
                 bootstraps>>

\* onSubmit of the composer form (input and button are disabled while sending)
SubmitComposer ==
  /\ Interactive /\ ChatVisible /\ ~sending
  /\ IF Trim(text) = NoText
       THEN UNCHANGED <<sendState, text, lastEvent, run>>
       ELSE LET m1 == clearChipsOnLastAssistant(addUserBubble(messages, Trim(text)))
                q  == handleSend(Closure, [Queue EXCEPT !.messages = m1],
                                 Trim(text), <<>>, "composer", "none")
            IN /\ Within(q)
               /\ Commit(q)
               /\ text' = NoText
               /\ lastEvent' = Event("composer", <<>>, q.result)
               /\ run' = NoRun
  /\ UNCHANGED <<config, mounted, greetedWith, started, storedStarted, conversationId,
                 storedCid, heroText, startupError, toast, pendingSelections,
                 bootstraps>>

\* landing variant: onSubmit of the landing form, startWithText; when
\* handleSend returns without sending, the handler goes on at once
StartWithText ==
  /\ Interactive /\ HeroVisible
  /\ LET t  == IF Trim(heroText) # NoText THEN Trim(heroText) ELSE <<"hello">>
         m1 == clearChipsOnLastAssistant(addUserBubble(messages, t))
         q  == handleSend(Closure, [Queue EXCEPT !.messages = m1], t, <<>>,
                          "landing", "hero")
     IN /\ Within(q)
        /\ Commit(q)
        /\ started' = TRUE
        /\ heroText' = IF q.result = "accepted" THEN heroText ELSE NoText
        /\ lastEvent' = Event("landing", <<>>, q.result)
  /\ storedStarted' = PersistStarted(started, started', storedStarted)
  /\ run' = NoRun
  /\ UNCHANGED <<config, mounted, greetedWith, conversationId, storedCid, text,
                 startupError, toast, pendingSelections, bootstraps>>

\* greeting variant: Starter onPick
StarterPick(example) ==
  /\ Interactive /\ StarterVisible
  /\ LET q == handleSend(Closure, Queue, example, <<>>, "starter", "none")
     IN /\ Within(q)
        /\ Commit(q)
        /\ lastEvent' = Event("starter", <<>>, q.result)
  /\ run' = NoRun
  /\ UNCHANGED <<config, mounted, greetedWith, started, storedStarted, conversationId,
                 storedCid, text, heroText, startupError, toast, pendingSelections,
                 bootstraps>>

\* handleChipClick, the test of branch 1
IsToggle(a) ==
  /\ GetBool(a, "clientOnly")
  /\ GetStr(a, "type") = "toggle"
  /\ GetStr(a, "group") # ""
  /\ GetStr(a, "value") # ""

SummaryText(label, none, list) ==
  IF Len(list) # 0 THEN <<label>> \o Join(list, ", ") ELSE <<none>>

\* handleChipClick, branches 2 and 3: submit the selections of one group; when
\* handleSend returns without sending, the handler goes on at once
SubmitGroup(s, group, label, none, type) ==
  LET list == pendingSelections[group]
      m1 == clearChipsOnLastAssistant(
              addUserBubble(messages, SummaryText(label, none, list)))
      q  == handleSend(Closure, [Queue EXCEPT !.messages = m1], NoText,
                       << [type |-> type, data |-> list] >>, "chip", group)
  IN /\ Within(q)
     /\ Commit(q)
     /\ pendingSelections' = IF q.result = "accepted" THEN pendingSelections
                             ELSE clearSelections(pendingSelections, group)
     /\ started' = IF q.result # "accepted" /\ variant = "landing" THEN TRUE ELSE started
     /\ lastEvent' = Event("chip", <<s>>, q.result)

\* handleChipClick, branch 4
SubmitOther(s) ==
  LET m1 == clearChipsOnLastAssistant(addUserBubble(messages, <<s.title>>))
      q  == handleSend(Closure, [Queue EXCEPT !.messages = m1], NoText,
                       <<s.action>>, "chip", "none")
  IN /\ Within(q)
     /\ Commit(q)
     /\ started' = IF variant = "landing" THEN TRUE ELSE started
     /\ lastEvent' = Event("chip", <<s>>, q.result)
     /\ UNCHANGED pendingSelections

handleChipClick(s) ==
  LET a == s.action IN
  IF sending \/ startupError # NoText
    THEN /\ lastEvent' = Event("chip", <<s>>, "none")
         /\ UNCHANGED <<sendState, pendingSelections, started>>
  ELSE IF IsToggle(a)
    THEN /\ pendingSelections' = toggleSelection(pendingSelections, a.group, a.value)
         /\ lastEvent' = Event("chip", <<s>>, "none")
         /\ UNCHANGED <<sendState, started>>
  ELSE IF GetStr(a, "type") = "submit_refine_cuisines"
    THEN SubmitGroup(s, "cuisine", "Cuisines: ", "No cuisine preference",
                     "refine_set_cuisines")
  ELSE IF GetStr(a, "type") = "submit_refine_areas"
    THEN SubmitGroup(s, "area", "Areas: ", "No area preference", "refine_set_areas")
  ELSE SubmitOther(s)

Contains(list, v) == \E i \in 1..Len(list) : list[i] = v

\* the clicks on one toggle chip in a row, and whether its value was selected
\* before the first of them
RunAfter(s) ==
  IF ~IsToggle(s.action) THEN NoRun
  ELSE IF run.n = 1 /\ run.chip = <<s>> THEN [run EXCEPT !.n = 2]
  ELSE [n |-> 1, chip |-> <<s>>,
        member |-> Contains(pendingSelections[s.action.group], s.action.value)]

\* onClick of chip j of transcript entry m (disabled while sending)
ChipClick(m, j) ==
  /\ Interactive /\ ChatVisible /\ ~sending
  /\ m \in 1..Len(messages)
  /\ HasChips(messages[m])
  /\ j \in 1..Len(messages[m].suggestions[1])
  /\ handleChipClick(messages[m].suggestions[1][j])
  /\ storedStarted' = PersistStarted(started, started', storedStarted)
  /\ run' = RunAfter(messages[m].suggestions[1][j])
  /\ UNCHANGED <<config, mounted, greetedWith, conversationId, storedCid, text,
                 heroText, startupError, toast, bootstraps>>

\* a reset that leaves the transcript as it is
resetConversation_KeepsTranscript ==
  /\ Interactive
  /\ storedCid' = NoCid
  /\ conversationId' = NoCid
  /\ pendingSelections' = NoSelections
  /\ IF variant = "landing"
       THEN /\ started' = FALSE
            /\ storedStarted' = PersistStarted(started, FALSE, "")
            /\ lastEvent' = Event("reset", <<>>, "none")
            /\ UNCHANGED sendState
       ELSE LET q == IF startupError = NoText
                       THEN handleSend(Closure, Queue, NoText, <<>>, "reset", "none")
                       ELSE Queue
            IN /\ Within(q)
               /\ Commit(q)
               /\ lastEvent' = Event("reset", <<>>, q.result)
               /\ UNCHANGED <<started, storedStarted>>
  /\ run' = NoRun
  /\ UNCHANGED <<config, mounted, greetedWith, text, heroText, startupError, toast,
                 bootstraps>>

\* onClick of "Reset conversation" in the footer
resetConversation ==
  /\ Interactive
  /\ storedCid' = NoCid
  /\ conversationId' = NoCid
  /\ pendingSelections' = NoSelections
  /\ IF variant = "landing"
       THEN /\ started' = FALSE
            /\ storedStarted' = PersistStarted(started, FALSE, "")
            /\ messages' = <<>>
            /\ lastEvent' = Event("reset", <<>>, "none")
            /\ UNCHANGED <<lastRequestRef, sending, pending, lastRequest, accepted,
                           refused>>
       ELSE LET q == IF startupError = NoText
                       THEN handleSend(Closure, [Queue EXCEPT !.messages = <<>>],
                                       NoText, <<>>, "reset", "none")
                       ELSE [Queue EXCEPT !.messages = <<>>]
            IN /\ Within(q)
               /\ Commit(q)
               /\ lastEvent' = Event("reset", <<>>, q.result)
               /\ UNCHANGED <<started, storedStarted>>
  /\ run' = NoRun
  /\ UNCHANGED <<config, mounted, greetedWith, text, heroText, startupError, toast,
                 bootstraps>>

\* ----------------------------------------------------------- specification
Next ==
  \/ Mount
  \/ GreetingEffect
  \/ Tick
  \/ ToastTimeout
  \/ \E i \in 1..Len(pending) : Reject(i)
  \/ \E i \in 1..Len(pending), o \in Outcomes : Settle(i, o)
  \/ \E t \in TypedTexts : TypeText(t)
  \/ \E t \in TypedTexts : TypeHero(t)
  \/ SubmitComposer
  \/ StartWithText
  \/ \E e \in StarterExamples : StarterPick(e)
  \/ \E m \in 1..Len(messages), j \in 1..Len(chips) : ChipClick(m, j)
  \/ resetConversation

Spec == Init /\ [][Next]_vars

\* The transport call of every send resolves or fails, and the continuation
\* of a suspended handleSend runs once its promise has settled.
SpecFair ==
  /\ Spec
  /\ WF_vars(\E i \in 1..Len(pending) : Reject(i))
  /\ WF_vars(\E i \in 1..Len(pending), o \in Outcomes : Settle(i, o))

\* The chip dialogue in full: every chip of the cuisine and area questions,
\* with valid configuration and without the typed-text paths.
InitChips == InitWith(AllChips) /\ apiUrl # "" /\ anonKey # ""

ChipOutcomes ==
  { o \in Outcomes : o.kind \in {"ok", "http"}
                     /\ (o.kind = "ok" => o.conversationId = "c1") }

NextChips ==
  \/ Mount
  \/ Tick
  \/ \E i \in 1..Len(pending), o \in ChipOutcomes : Settle(i, o)
  \/ StartWithText
  \/ \E m \in 1..Len(messages), j \in 1..Len(chips) : ChipClick(m, j)
  \/ resetConversation

SpecChips == InitChips /\ [][NextChips]_vars

TypeOK ==
  /\ variant \in Variants
  /\ sending \in BOOLEAN
  /\ mounted \in BOOLEAN
  /\ started \in BOOLEAN
  /\ conversationId \in {NoCid} \cup Cids
  /\ storedCid \in {NoCid} \cup Cids
  /\ toast \in {"", "error", "success"}
  /\ accepted \in 0..MaxRequests
  /\ refused \in 0..MaxRefused
  /\ \A g \in Groups : Len(pendingSelections[g]) <= Len(chips)

\* ------------------------------------------------------------------ claims
Outstanding == { i \in 1..Len(pending) : ~pending[i].threw }

UserCount(m) == Cardinality({ i \in 1..Len(m) : m[i].role = "user" })

\* the transcript entries that show chips, and the chip a click lands on
ChipEntries == { m \in 1..Len(messages) : HasChips(messages[m]) }

ChipAt(m, j) == messages[m].suggestions[1][j]

ChipsOf(m) == 1..Len(messages[m].suggestions[1])

ConfigValid == apiUrl # "" /\ anonKey # ""

Mentions(t, word) == \E i \in 1..Len(t) : t[i] = word

\* a step of one of the handlers that can trigger a send (reset apart)
SendTrigger ==
  \/ Mount
  \/ GreetingEffect
  \/ SubmitComposer
  \/ StartWithText
  \/ \E e \in StarterExamples : StarterPick(e)
  \/ \E m \in ChipEntries : \E j \in ChipsOf(m) : ChipClick(m, j)

\* C1: at most one request is outstanding at any time, whatever triggers
\* arrive in the meantime; handleSend is suspended at most once.
C1_SingleFlight == Cardinality(Outstanding) <= 1 /\ Len(pending) <= 1

C1_Witness ==
  /\ Len(pending) = 1 /\ ~pending[1].threw
  /\ lastEvent.result = "rejected"

\* C2: a send trigger that arrives while sending is true changes neither the
\* transcript nor pendingSelections nor conversationId and issues no request.
C2_TriggerWhileSendingIsNoOp ==
  [][(sending /\ SendTrigger)
       => UNCHANGED <<messages, pendingSelections, conversationId, lastRequest>>]_vars

\* C3: the step that accepts a trigger adds at most one user entry to the
\* transcript, and merging the response or the failure adds none.
C3_OneEchoPerTrigger ==
  [][/\ accepted' = accepted + 1 => UserCount(messages') <= UserCount(messages) + 1
     /\ Len(pending') < Len(pending) => UserCount(messages') <= UserCount(messages)]_vars

\* C4: a request issued while the session has a conversationId, by any handler
\* but reset, carries that conversationId in its body.
C4_RequestsCarryId ==
  [][(lastRequest' # lastRequest /\ conversationId # NoCid /\ ~resetConversation)
       => lastRequest'[1].fetch.body.conversationId = conversationId]_vars

C4_Witness ==
  /\ lastRequest # <<>>
  /\ lastRequest[1].fetch.body.conversationId = "c2"
  /\ lastRequest[1].trigger \in {"chip", "composer"}
  /\ sending

\* C5, as claimed: between resets a non-empty conversationId never changes.
C5_IdNeverChanges ==
  [][(conversationId # NoCid /\ ~resetConversation)
       => conversationId' = conversationId]_vars

\* C5, amended: between resets a non-empty conversationId never becomes empty
\* and changes only when a successful response carries a non-empty
\* conversationId other than the one the request was issued with; it then
\* takes the value of the response.
C5_IdChangesOnlyByAdoption ==
  [][(conversationId # NoCid /\ conversationId' # conversationId /\ ~resetConversation)
       => /\ conversationId' # NoCid
          /\ \E i \in 1..Len(pending), o \in Outcomes :
               /\ Settle(i, o)
               /\ o.kind = "ok"
               /\ o.conversationId = conversationId'
               /\ o.conversationId # pending[i].cid]_vars

C5_Witness ==
  /\ lastEvent.kind = "settle"
  /\ Len(messages) >= 3
  /\ lastRequest # <<>>
  /\ lastRequest[1].fetch.body.conversationId = "c1"
  /\ conversationId = "c2"

\* C6: the greeting effect makes at most one send per mount, with an empty
\* payload; exactly one when the configuration is valid and no conversationId
\* was persisted at load, and none when one was.
C6_GreetingOnce ==
  /\ bootstraps <= 1
  /\ persistedAtLoad # NoCid => bootstraps = 0
  /\ (variant = "greeting" /\ mounted /\ ConfigValid /\ persistedAtLoad = NoCid)
       => bootstraps = 1
  /\ (lastRequest # <<>> /\ lastRequest[1].trigger = "bootstrap")
       => /\ lastRequest[1].fetch.body.text = NoText
          /\ lastRequest[1].fetch.body.action = <<>>
          /\ lastRequest[1].id = 1

C6_Witness ==
  /\ variant = "greeting"
  /\ bootstraps = 1
  /\ accepted = 2
  /\ conversationId # NoCid
  /\ lastEvent.kind = "settle"

\* C7: with the endpoint URL or the credential missing sendChat throws before
\* the fetch, with a message that names exactly the missing keys; no fetch is
\* ever issued while configuration is missing.
C7_ConfigGate ==
  /\ lastRequest # <<>> => ConfigValid
  /\ \A i \in 1..Len(pending) :
       /\ pending[i].threw <=> ~ConfigValid
       /\ pending[i].threw =>
            /\ pending[i].message[1] = "Missing config: "
            /\ Mentions(pending[i].message, "VITE_CHAT_URL") <=> apiUrl = ""
            /\ Mentions(pending[i].message, "VITE_SUPABASE_ANON_KEY") <=> anonKey = ""

C7_Witness ==
  /\ Len(pending) = 1 /\ pending[1].threw
  /\ apiUrl = "" /\ anonKey # ""
  /\ lastRequest = <<>>

\* C8: two clicks in a row on one client-only toggle chip that carries a group
\* and a value, while idle, leave the value selected exactly when it was
\* before; each of the clicks leaves every other selection, the transcript and
\* the requests as they were.
C8_ToggleTwice ==
  /\ [](run.n = 2 =>
          Contains(pendingSelections[run.chip[1].action.group],
                   run.chip[1].action.value) = run.member)
  /\ [][\A m \in ChipEntries : \A j \in ChipsOf(m) :
          (ChipClick(m, j) /\ IsToggle(ChipAt(m, j).action)) =>
             /\ UNCHANGED <<messages, lastRequest, pending, accepted, sending>>
             /\ \A g \in Groups :
                  IF g # ChipAt(m, j).action.group
                    THEN pendingSelections'[g] = pendingSelections[g]
                    ELSE \A w \in {chips[k].action.value :
                                     k \in {n \in 1..Len(chips) : IsToggle(chips[n].action)}} :
                           w # ChipAt(m, j).action.value =>
                             (Contains(pendingSelections'[g], w)
                                <=> Contains(pendingSelections[g], w))]_vars

C8_Witness ==
  /\ run.n = 2 /\ run.member
  /\ Len(pendingSelections["cuisine"]) = 2
  /\ Len(pendingSelections["area"]) = 1

\* C9: a click on a suggestion whose action is client-only and of type toggle
\* issues no request and appends nothing to the transcript.
C9_ToggleNeverSends ==
  [][\A m \in ChipEntries : \A j \in ChipsOf(m) :
       (/\ ChipClick(m, j)
        /\ GetBool(ChipAt(m, j).action, "clientOnly")
        /\ GetStr(ChipAt(m, j).action, "type") = "toggle")
         => UNCHANGED <<messages, lastRequest>>]_vars

\* C10: once a click on a chip that is no toggle has been accepted, the
\* transcript entry that showed the chip has no suggestion list any more.
C10_ClickedChipsCleared ==
  [][\A m \in ChipEntries : \A j \in ChipsOf(m) :
       (ChipClick(m, j) /\ ~IsToggle(ChipAt(m, j).action) /\ accepted' = accepted + 1)
         => ~HasChips(messages'[m])]_vars

\* C11: a composer submit adds exactly one user entry for its text and issues
\* one request; a second submit of the same text inside the duplicate window of
\* the landing variant adds no further user entry and no further request.
C11_DoubleSubmit ==
  [][(SubmitComposer /\ Trim(text) # NoText) =>
       IF variant = "landing" /\ IsDuplicate(lastRequestRef, RequestKey(Trim(text), <<>>))
         THEN UserCount(messages') = UserCount(messages) /\ lastRequest' = lastRequest
         ELSE /\ UserCount(messages') = UserCount(messages) + 1
              /\ lastRequest' # lastRequest]_vars

\* what C12 expects of an idle click on the submit chip of one group
SubmitExpected(group, label, none, type) ==
  LET S == pendingSelections[group] IN
  /\ messages' = Append(messages,
                        [role |-> "user",
                         text |-> IF Len(S) = 0 THEN <<none>> ELSE <<label>> \o Join(S, ", "),
                         suggestions |-> <<>>])
  /\ lastRequest' # lastRequest
  /\ lastRequest'[1].fetch.body.action = << [type |-> type, data |-> S] >>
  /\ lastRequest'[1].fetch.body.text = NoText

\* C12: an idle click on submit-cuisines (submit-areas) appends one user entry
\* that summarises the selection of the group, issues one request with the
\* action refine_set_cuisines (refine_set_areas) over the selection and without
\* text, and the selection of the group is empty once that send has completed.
C12_SubmitSelections ==
  [][/\ \A m \in ChipEntries : \A j \in ChipsOf(m) :
          ChipClick(m, j) =>
            /\ GetStr(ChipAt(m, j).action, "type") = "submit_refine_cuisines"
                 => SubmitExpected("cuisine", "Cuisines: ", "No cuisine preference",
                                   "refine_set_cuisines")
            /\ GetStr(ChipAt(m, j).action, "type") = "submit_refine_areas"
                 => SubmitExpected("area", "Areas: ", "No area preference",
                                   "refine_set_areas")
     /\ \A g \in Groups :
          (Len(pending') < Len(pending) /\ pending[1].after = g)
            => pendingSelections'[g] = <<>>]_vars

\* what C13 expects of the step that handles a failed transport call
FailureHandled(description) ==
  /\ messages' = Append(messages, [role |-> "assistant", text |-> description,
                                   suggestions |-> <<>>])
  /\ toast' = "error"
  /\ conversationId' = conversationId
  /\ storedCid' = storedCid
  /\ sending' = FALSE

\* C13: when the transport call of an accepted send fails (configuration
\* missing, a status that is not 2xx, a network failure) one assistant entry
\* with the description of the error is appended, the error toast is set,
\* conversationId stays as it is and sending becomes false.
C13_FailureHandled ==
  [][\A i \in 1..Len(pending) :
       /\ Reject(i) =>
            FailureHandled(<<"Missing config: ">>
                           \o (IF apiUrl = "" THEN <<"VITE_CHAT_URL">> ELSE <<>>)
                           \o (IF apiUrl = "" /\ anonKey = "" THEN <<", ">> ELSE <<>>)
                           \o (IF anonKey = "" THEN <<"VITE_SUPABASE_ANON_KEY">> ELSE <<>>))
       /\ \A o \in Outcomes :
            Settle(i, o) =>
              /\ o.kind = "http" => FailureHandled(<<"chat failed: ", o.status, " ", o.body>>)
              /\ o.kind = "network" => FailureHandled(<<o.message>>)]_vars

C13_Witness ==
  /\ lastEvent.kind = "settle"
  /\ messages # <<>>
  /\ messages[Len(messages)] =
       [role |-> "assistant", text |-> <<"chat failed: ", "500", " ", "boom">>,
        suggestions |-> <<>>]
  /\ toast = "error"
  /\ conversationId = "c2"
  /\ ~sending

\* C14: right after a reset, whatever the state it was clicked in, the
\* conversationId in memory and the persisted one are empty, the transcript is
\* empty and no selection is pending.
C14_ResetClears ==
  [][resetConversation =>
       /\ conversationId' = NoCid
       /\ storedCid' = NoCid
       /\ messages' = <<>>
       /\ \A g \in Groups : pendingSelections'[g] = <<>>]_vars

C14_Witness ==
  /\ lastEvent.kind = "reset"
  /\ sending
  /\ lastRequest # <<>>
  /\ lastRequest[1].trigger = "chip"
  /\ lastRequest[1].fetch.body.conversationId = "c2"
  /\ conversationId = NoCid /\ storedCid = NoCid
  /\ messages = <<>>

\* C15: every request has channel "web" and locale "en-GB" and never both a
\* text and an action; a request with neither comes from the greeting effect
\* or from the greeting that reset sends in the greeting variant.
C15_BodyShape ==
  lastRequest # <<>> =>
    LET body == lastRequest[1].fetch.body IN
    /\ body.channel = "web"
    /\ body.locale = "en-GB"
    /\ ~(body.text # NoText /\ body.action # <<>>)
    /\ (body.text = NoText /\ body.action = <<>>)
         => variant = "greeting" /\ lastRequest[1].trigger \in {"bootstrap", "reset"}

C15_Witness ==
  /\ lastRequest # <<>>
  /\ lastRequest[1].trigger = "reset"
  /\ lastRequest[1].id = 2
  /\ lastRequest[1].fetch.body.text = NoText
  /\ lastRequest[1].fetch.body.action = <<>>

\* C16: once a successful response that carries a conversationId has been
\* processed, the conversationId in memory and the persisted one are the one
\* of the response.
C16_ResponseIdAdopted ==
  [][\A i \in 1..Len(pending) : \A o \in Outcomes :
       (Settle(i, o) /\ o.kind = "ok" /\ o.conversationId # NoCid)
         => /\ conversationId' = o.conversationId
            /\ storedCid' = o.conversationId]_vars

\* C17: a request issued by the reset step, or by the first handler that runs
\* after it, carries no conversationId.
C17_FirstRequestAfterReset ==
  [][(lastRequest' # lastRequest /\ (resetConversation \/ lastEvent.kind = "reset"))
       => lastRequest'[1].fetch.body.conversationId = NoCid]_vars

\* C18: while the configuration is invalid no send is accepted, nothing is
\* appended to the transcript and no toast is shown, from the first mount on.
C18_ConfigInvalidNoSend ==
  ~ConfigValid =>
    /\ accepted = 0
    /\ ~sending
    /\ messages = <<>>
    /\ toast = ""

\* C19: every accepted send leaves Sending: provided the transport call
\* resolves or fails, sending becomes false again and the composer text is
\* empty, and the step that handles the outcome, a success or a failure of
\* any kind, is the one that does both.
C19_LeavesSending ==
  /\ sending ~> (~sending /\ text = NoText)
  /\ [][Len(pending') < Len(pending) => (~sending' /\ text' = NoText)]_vars

C19_Witness ==
  /\ accepted = 2
  /\ lastEvent.kind = "settle"
  /\ toast = "error"
  /\ pending = <<>>
  /\ ~sending /\ text = NoText

\* the roles and texts of a transcript, without the suggestion lists
Plain(m) == [k \in 1..Len(m) |-> [role |-> m[k].role, text |-> m[k].text]]

\* C20: every step but reset keeps the roles and texts of the transcript as a
\* prefix of the new transcript, and the step that merges a response appends
\* its messages as one block, in the order of the response.
C20_AppendOnly ==
  [][/\ ~resetConversation =>
          /\ Len(messages') >= Len(messages)
          /\ SubSeq(Plain(messages'), 1, Len(messages)) = Plain(messages)
     /\ \A i \in 1..Len(pending) : \A o \in Outcomes :
          (Settle(i, o) /\ o.kind = "ok")
            => messages' = messages \o (IF o.messages = <<>> THEN <<>> ELSE o.messages[1])]_vars

C20_Witness ==
  /\ Len(messages) = 6
  /\ lastEvent.kind = "settle"
  /\ messages[4].role = "user"
  /\ messages[5] = BotInfo
  /\ messages[6].role = "assistant" /\ HasChips(messages[6])

\* C21: in every state from the initial load on the persisted conversation id
\* equals the one in memory, both empty or both the same value.
C21_PersistedEqualsMemory == storedCid = conversationId

C21_Witness ==
  /\ persistedAtLoad = "c1"
  /\ lastEvent.kind = "settle"
  /\ Len(messages) >= 3
  /\ conversationId = "c2" /\ storedCid = "c2"

\* C22: while a request is outstanding sending is true, and sending goes back
\* to false only in the step that completes a suspended handleSend, not in a
\* reset, a toggle or a refused trigger.
C22_SendingWhileOutstanding ==
  /\ [](Outstanding # {} => sending)
  /\ [][(sending /\ ~sending') => Len(pending') < Len(pending)]_vars

C22_Witness ==
  /\ Outstanding # {}
  /\ sending
  /\ lastEvent.kind = "reset"
  /\ lastEvent.result = "rejected"

\* C23: the outcome of a request issued before a reset is not merged after
\* it: when the first thing to happen after a reset that sent nothing is the
\* completion of a send still suspended, that step appends nothing to the
\* emptied transcript and leaves conversationId empty.
C23_StaleOutcomeDiscarded ==
  [][(/\ lastEvent.kind = "reset"
      /\ lastEvent.result # "accepted"
      /\ Len(pending') < Len(pending))
       => /\ messages' = messages
          /\ conversationId' = conversationId
          /\ storedCid' = storedCid]_vars

\* C24: in the landing variant a trigger that handleSend drops at the
\* duplicate window appends no user entry, clears no selection and issues no
\* request.
C24_DroppedChangesNothing ==
  [][(variant = "landing" /\ refused' = refused + 1 /\ lastEvent'.result = "dropped")
       => /\ messages' = messages
          /\ pendingSelections' = pendingSelections
          /\ lastRequest' = lastRequest]_vars
====
